---- MODULE Spec2Model ----
(***************************************************************************)
(* Model of the R2 metadata worker: the batch orchestrator                 *)
(* processAllMedia (src/src/index.ts), the per-file dispatcher             *)
(* processFile, the PDF processor processPdf (src/src/processors/pdf.ts)   *)
(* and the two entry points scheduled and fetch.                           *)
(*                                                                         *)
(* Object keys are sequences of tokens: a token is either the dot "." or   *)
(* a dot-free piece of the key, so "a.jpg" is <<"a", ".", "jpg">>.  The    *)
(* string operations of the code (endsWith, lastIndexOf, substring,        *)
(* toLowerCase, template concatenation) are computed on these sequences.   *)
(***************************************************************************)
EXTENDS Integers, Sequences, FiniteSets, TLC

\* ------------------------------------------------------------------ bounds

\* Page size of one list request (the code asks for 500; scaled down).
PageLimit == 2

\* Number of invocation slots (handlers that may be alive at once).
NumRuns == 2

Runs == 1..NumRuns

\* ------------------------------------------------------------- object keys

AJpg == <<"a", ".", "jpg">>
BPdf == <<"b", ".", "pdf">>
CMp4 == <<"c", ".", "mp4">>
DTxt == <<"d", ".", "txt">>

\* faulty variant: the metadata is put under the key of the object itself
MetadataFilenameSame(objectName) == objectName

\* `${objectName}.metadata.json`
MetadataFilename(objectName) == objectName \o <<".", "metadata", ".", "json">>

\* String.prototype.endsWith
EndsWith(s, suffix) ==
    /\ Len(s) >= Len(suffix)
    /\ SubSeq(s, Len(s) - Len(suffix) + 1, Len(s)) = suffix

\* faulty variant: the sidecar filter is missing, no key is taken for a sidecar
IsMetadataFileNever(objectName) == FALSE

\* objectName.endsWith('.metadata.json')
IsMetadataFile(objectName) == EndsWith(objectName, <<".", "metadata", ".", "json">>)

\* String.prototype.lastIndexOf('.'), 1-based; 0 when there is no dot (JS: -1)
LastIndexOfDot(s) ==
    IF \E i \in 1..Len(s) : s[i] = "."
    THEN CHOOSE i \in 1..Len(s) : s[i] = "." /\ \A j \in (i+1)..Len(s) : s[j] # "."
    ELSE 0

\* faulty variant: the extension is compared as it is spelled in the key
ToLowerCaseIdentity(tok) == tok

\* String.prototype.toLowerCase on one token
ToLowerCase(tok) ==
    CASE tok = "JPG" -> "jpg"
      [] tok = "PDF" -> "pdf"
      [] tok = "Pdf" -> "pdf"
      [] tok = "MP4" -> "mp4"
      [] tok = "Report" -> "report"
      [] tok = "A" -> "a"
      [] OTHER -> tok

\* objectName.substring(objectName.lastIndexOf('.')).toLowerCase()
\* (substring(-1) is substring(0): a key without a dot is its own extension)
FileExtension(objectName) ==
    LET i    == LastIndexOfDot(objectName)
        from == IF i = 0 THEN 1 ELSE i
        tail == SubSeq(objectName, from, Len(objectName))
    IN  [j \in 1..Len(tail) |-> ToLowerCase(tail[j])]

supportedExtensions ==
    { <<".", "jpg">>, <<".", "jpeg">>, <<".", "png">>, <<".", "mp4">>, <<".", "pdf">> }

IsImageExtension(fileExtension) ==
    fileExtension \in { <<".", "jpg">>, <<".", "jpeg">>, <<".", "png">> }

IsVideoExtension(fileExtension) == fileExtension = <<".", "mp4">>

IsPdfExtension(fileExtension) == fileExtension = <<".", "pdf">>

\* The source objects of the bucket and the order in which list enumerates
\* keys (R2 lists in lexicographic key order, so a sidecar follows its source).
SourceKeys == {AJpg, BPdf, CMp4, DTxt}

KeyOrder ==
    << AJpg, MetadataFilename(AJpg),
       BPdf, MetadataFilename(BPdf),
       CMp4, MetadataFilename(CMp4),
       DTxt >>

Keys == { KeyOrder[i] : i \in 1..Len(KeyOrder) }

\* Source objects an outside writer may delete while the worker is running.
DeletableKeys == {BPdf}

\* Sidecars that may be present before the first run.
InitialSidecars == { MetadataFilename(AJpg), MetadataFilename(BPdf), MetadataFilename(CMp4) }

\* ------------------------------------------------------------------- state

VARIABLES
    store,                \* MEDIA_BUCKET: the set of keys that hold an object
    pc,                   \* per slot: where its handler stands
    request,              \* per slot: the trigger that started the handler
    options,              \* per slot: options of processAllMedia
    stats,                \* per slot: the stats object of the run
    truncated,            \* per slot: local `truncated` of the page loop
    cursor,               \* per slot: local `cursor` (position in KeyOrder, 0 = undefined)
    listing,              \* per slot: the page the last list request returned
    processingPromises,   \* per slot: keys with a promise in the current wave
    task,                 \* per slot and key: the per-object task
    response,             \* per slot: HTTP status answered (0 = none yet)
    hist,                 \* per slot: what the run has done so far (observation only)
    stable,               \* observation: the last run to end was a clean non-force run
                          \* and no source object has changed since it started
    written,              \* observation: the sidecar keys the worker has put so far
    aiResponse,           \* the TAGS section of the model reply processPdf works on
                          \* (set in the runs of the tag computation only)
    metadata              \* the path and the tags of the metadata record processPdf
                          \* put (set in the runs of the tag computation only)

vars == << store, pc, request, options, stats, truncated, cursor, listing,
           processingPromises, task, response, hist, stable, written,
           aiResponse, metadata >>

ZeroStats == [processed |-> 0, skipped |-> 0, errors |-> 0]

NoTask ==
    [ pc      |-> "none",    \* none, head, get, vision, fallback, analyze,
                             \* putVision, putFallback, putMinimal, putImage, settled
      probe   |-> "none",    \* outcome of head: none, null, found, fail
      invoked |-> FALSE,     \* processImage / processPdf was called
      got     |-> "none",    \* outcome of get: none, ok, null, fail
      aiFail  |-> FALSE,     \* every analysis attempted for the object failed
      puts    |-> 0,         \* put requests issued for the sidecar
      putFail |-> FALSE,     \* the last put issued for the sidecar failed
      wrote   |-> FALSE,     \* a put of the sidecar succeeded
      inc     |-> ZeroStats ]  \* increments of stats made on behalf of the object

NoListing == [objects |-> << >>, truncated |-> FALSE, cursor |-> 0]

NoRequest == [entry |-> "none", method |-> "none", userAgent |-> "none"]

\* a reply without a TAGS section (also: no reply is being worked on)
NoResponse == [match |-> FALSE, section |-> << >>]

NoMetadata == [path |-> "none", tags |-> << >>]

NoHist ==
    [ listed     |-> {},      \* keys returned by the list requests of the run
      lists      |-> 0,       \* list requests issued
      heads      |-> 0,       \* head requests issued
      listFailed |-> FALSE,   \* a list request failed
      opFailed   |-> FALSE,   \* some store or analyzer operation failed
      changed    |-> FALSE,   \* a source object was deleted since the run began
      afterClean |-> FALSE,   \* the run started in a stable bucket
      cut        |-> FALSE,   \* the handler that last used the slot was cut off
      afterCut   |-> FALSE ]  \* the run started after a handler was cut off

Init ==
    /\ store \in { SourceKeys \cup S : S \in SUBSET InitialSidecars }
    /\ pc = [r \in Runs |-> "idle"]
    /\ request = [r \in Runs |-> NoRequest]
    /\ options = [r \in Runs |-> [forceReprocess |-> FALSE]]
    /\ stats = [r \in Runs |-> ZeroStats]
    /\ truncated = [r \in Runs |-> FALSE]
    /\ cursor = [r \in Runs |-> 0]
    /\ listing = [r \in Runs |-> NoListing]
    /\ processingPromises = [r \in Runs |-> {}]
    /\ task = [r \in Runs |-> [k \in Keys |-> NoTask]]
    /\ response = [r \in Runs |-> 0]
    /\ hist = [r \in Runs |-> NoHist]
    /\ stable = FALSE
    /\ written = {}
    /\ aiResponse = NoResponse
    /\ metadata = NoMetadata

\* ------------------------------------------------------------ object store

\* MEDIA_BUCKET.list({limit, cursor}): the next PageLimit keys after the cursor
ListObjects(bucket, after) ==
    LET rest    == SelectSeq(SubSeq(KeyOrder, after + 1, Len(KeyOrder)),
                             LAMBDA k : k \in bucket)
        n       == IF Len(rest) > PageLimit THEN PageLimit ELSE Len(rest)
        objects == SubSeq(rest, 1, n)
        last    == IF n = 0 THEN after
                   ELSE CHOOSE i \in 1..Len(KeyOrder) : KeyOrder[i] = objects[n]
    IN  [objects |-> objects, truncated |-> Len(rest) > n, cursor |-> last]

\* MEDIA_BUCKET.head(key): null when the key holds no object
HeadObject(bucket, key) == IF key \in bucket THEN "found" ELSE "null"

\* MEDIA_BUCKET.get(key): null when the key holds no object
GetObject(bucket, key) == IF key \in bucket THEN "ok" ELSE "null"

\* MEDIA_BUCKET.put(key, ...)
PutObject(bucket, key) == bucket \cup {key}

\* ------------------------------------------------------- per-object task

StatFields == {"processed", "skipped", "errors"}

\* stats.<field>++ made on behalf of the task's object, n times
Bump(t, field, n) == [t EXCEPT !.inc[field] = @ + n]

\* the task's promise settles
Settled(t) == [t EXCEPT !.pc = "settled"]

\* processFile, lines 136-148: the processor returned, stats.processed++
ProcessFileResolved(t) == Settled(Bump(t, "processed", 1))

\* processFile, lines 149-153: the processor threw; stats.errors++ and rethrow
ProcessFileCatch(t) == Bump(t, "errors", 1)

\* faulty variant: the .catch of the gate swallows the failure without counting it
CallerCatchSilent(t) == Settled(t)

\* the .catch handler the caller chains on the task: stats.errors++
CallerCatch(t) == Settled(Bump(t, "errors", 1))

\* a processor that throws: caught in processFile, rethrown, caught by the caller
ProcessFileRejected(t) == CallerCatch(ProcessFileCatch(t))

\* processFile up to its first await: the image and PDF processors start by
\* requesting the object, the video branch only counts a skip
ProcessFile(t, fileExtension) ==
    IF IsImageExtension(fileExtension)
    THEN [t EXCEPT !.pc = "get", !.invoked = TRUE]
    ELSE IF IsVideoExtension(fileExtension)
    THEN Settled(Bump(t, "skipped", 1))
    ELSE IF IsPdfExtension(fileExtension)
    THEN [t EXCEPT !.pc = "get", !.invoked = TRUE]
    ELSE Settled(t)

\* faulty variant: the existence probe is never made
ShouldProbeNever(opts) == FALSE

\* faulty variant: the probe is made whatever the options say
ShouldProbeAlways(opts) == TRUE

\* if (!options.forceReprocess): the existence probe is made
ShouldProbe(opts) == ~opts.forceReprocess

\* faulty variant: the test is inverted (metadataObject === null)
MetadataExistsInverted(metadataObject) == metadataObject = "null"

\* faulty variant: the probe result is compared with undefined, which head never returns
MetadataExistsUndefined(metadataObject) == metadataObject = "undefined"

\* if (metadataObject !== null)
MetadataExists(metadataObject) == metadataObject # "null"

\* the continuation of head(metadataFilename), lines 85-96
GateSettles(t, fileExtension, metadataObject, failed) ==
    IF failed
    THEN CallerCatch([t EXCEPT !.probe = "fail"])
    ELSE IF MetadataExists(metadataObject)
    THEN Settled(Bump([t EXCEPT !.probe = metadataObject], "skipped", 1))
    ELSE ProcessFile([t EXCEPT !.probe = metadataObject], fileExtension)

\* the body of the for loop over listing.objects, for one object
Launch(objectName, opts) ==
    IF IsMetadataFile(objectName)
    THEN NoTask
    ELSE IF FileExtension(objectName) \notin supportedExtensions
    THEN Bump(NoTask, "skipped", 1)
    ELSE IF ShouldProbe(opts)
    THEN [NoTask EXCEPT !.pc = "head"]
    ELSE ProcessFile(NoTask, FileExtension(objectName))

\* the objects of a page for which a promise is pushed to processingPromises
Promised(objectName) ==
    /\ ~IsMetadataFile(objectName)
    /\ FileExtension(objectName) \in supportedExtensions

\* processPdf after get (and arrayBuffer): a missing object or a failed read
\* ends processPdf without an exception; otherwise the vision analysis starts
ProcessPdfGot(t, object) ==
    IF object = "ok"
    THEN [t EXCEPT !.got = object, !.pc = "vision"]
    ELSE ProcessFileResolved([t EXCEPT !.got = object])

\* processImage (src/processors/image.ts) follows the analyzer contract: it gets
\* the object, analyses it and puts the sidecar, and fails when a step fails.
\* processImage after get: analysis starts, or the processor fails
ProcessImageGot(t, object) ==
    IF object = "ok"
    THEN [t EXCEPT !.got = object, !.pc = "analyze"]
    ELSE ProcessFileRejected([t EXCEPT !.got = object])

\* processPdf, the analysis calls: the vision analysis (two model calls), and
\* after any failure of the vision path the text-based fallback (two calls);
\* when the fallback fails too, the minimal metadata is put
ProcessPdfAnalyzed(t, ok) ==
    IF t.pc = "vision"
    THEN IF ok THEN [t EXCEPT !.pc = "putVision", !.puts = @ + 1]
               ELSE [t EXCEPT !.pc = "fallback", !.aiFail = TRUE]
    ELSE IF ok THEN [t EXCEPT !.pc = "putFallback", !.puts = @ + 1, !.aiFail = FALSE]
               ELSE [t EXCEPT !.pc = "putMinimal", !.puts = @ + 1]

\* processPdf, the three puts: a failed put of the vision metadata is caught with
\* the analysis errors (fallback), a failed put of the fallback metadata leads to
\* the minimal metadata, a failed put of those to the outer catch, which swallows
ProcessPdfPut(t, ok) ==
    IF ok
    THEN ProcessFileResolved([t EXCEPT !.wrote = TRUE, !.putFail = FALSE])
    ELSE CASE t.pc = "putVision"   -> [t EXCEPT !.pc = "fallback", !.putFail = TRUE]
           [] t.pc = "putFallback" -> [t EXCEPT !.pc = "putMinimal", !.puts = @ + 1,
                                                !.putFail = TRUE]
           [] t.pc = "putMinimal"  -> ProcessFileResolved([t EXCEPT !.putFail = TRUE])

\* processImage, the analysis: on success the sidecar is put, on failure the
\* processor fails
ProcessImageAnalyzed(t, ok) ==
    IF ok THEN [t EXCEPT !.pc = "putImage", !.puts = @ + 1]
          ELSE ProcessFileRejected([t EXCEPT !.aiFail = TRUE])

\* processImage, the put of the sidecar: a failed put fails the processor
ProcessImagePut(t, ok) ==
    IF ok THEN ProcessFileResolved([t EXCEPT !.wrote = TRUE, !.putFail = FALSE])
          ELSE ProcessFileRejected([t EXCEPT !.putFail = TRUE])

\* an analysis call of the processor the task is in settles
AiSettled(t, ok) ==
    IF t.pc = "analyze" THEN ProcessImageAnalyzed(t, ok) ELSE ProcessPdfAnalyzed(t, ok)

\* put(metadataFilename, ...) of the processor the task is in settles
PutSettled(t, ok) ==
    IF t.pc = "putImage" THEN ProcessImagePut(t, ok) ELSE ProcessPdfPut(t, ok)

\* faulty variant: the task stores the count it made itself instead of
\* incrementing the shared counter, so increments of other tasks are lost
AccountOverwrite(s, old, new) ==
    [f \in StatFields |-> IF new.inc[f] > old.inc[f] THEN new.inc[f] ELSE s[f]]

\* the stats object after a task moved from record `old` to record `new`
Account(s, old, new) == [f \in StatFields |-> s[f] + new.inc[f] - old.inc[f]]

\* ----------------------------------------------------------- orchestrator

\* faulty variant: the catch returns fresh stats that hold only the listing error
ListingFailedResets(s) == [processed |-> 0, skipped |-> 0, errors |-> 1]

\* catch (error) around the page loop: stats.errors++
ListingFailed(s) == [s EXCEPT !.errors = @ + 1]

\* faulty variant: the join resolves with the first task that settles (Promise.race)
WaveSettledAny(r) ==
    \/ processingPromises[r] = {}
    \/ \E k \in processingPromises[r] : task[r][k].pc = "settled"

\* await Promise.allSettled(processingPromises)
WaveSettled(r) == \A k \in processingPromises[r] : task[r][k].pc = "settled"

\* faulty variant: the loop never goes round, only the first page is processed
LoopContinuesNever(r) == FALSE

\* faulty variant: the loop also stops once an error has been counted
LoopContinuesUnlessErrors(r) == listing[r].truncated /\ stats[r].errors = 0

\* truncated = listing.truncated; while (truncated)
LoopContinues(r) == listing[r].truncated

\* the run was a non-force run in which nothing failed and nothing changed
CleanRun(r, h) ==
    /\ ~options[r].forceReprocess
    /\ ~h.opFailed
    /\ ~h.listFailed
    /\ ~h.changed

\* processAllMedia(env, ctx, options) up to its first await (the first list)
BeginRun(r, req, force) ==
    /\ pc' = [pc EXCEPT ![r] = "list"]
    /\ request' = [request EXCEPT ![r] = req]
    /\ options' = [options EXCEPT ![r] = [forceReprocess |-> force]]
    /\ stats' = [stats EXCEPT ![r] = ZeroStats]
    /\ truncated' = [truncated EXCEPT ![r] = TRUE]
    /\ cursor' = [cursor EXCEPT ![r] = 0]
    /\ hist' = [hist EXCEPT ![r] = [NoHist EXCEPT !.lists = 1, !.afterClean = stable,
                                                  !.afterCut = \E q \in Runs : hist[q].cut]]
    /\ UNCHANGED << aiResponse, metadata, store, listing, processingPromises, task, response, stable, written >>

\* the list request resolves: the for loop over the page runs to its end
ListResolves(r) ==
    /\ pc[r] = "list"
    /\ LET page == ListObjects(store, cursor[r])
           objs == { page.objects[i] : i \in 1..Len(page.objects) }
           new  == [k \in Keys |-> IF k \in objs THEN Launch(k, options[r])
                                               ELSE task[r][k]]
       IN  /\ listing' = [listing EXCEPT ![r] = page]
           /\ task' = [task EXCEPT ![r] = new]
           /\ processingPromises' =
                  [processingPromises EXCEPT ![r] = { k \in objs : Promised(k) }]
           /\ stats' = [stats EXCEPT ![r] =
                  [f \in StatFields |->
                      @[f] + Cardinality({ k \in objs : new[k].inc[f] > 0 })]]
           /\ hist' = [hist EXCEPT ![r].listed = @ \cup objs,
                                   ![r].heads = @ + Cardinality({ k \in objs : new[k].pc = "head" })]
    /\ pc' = [pc EXCEPT ![r] = "wave"]
    /\ UNCHANGED << aiResponse, metadata, store, request, options, truncated, cursor, response, stable, written >>

\* the list request fails: the catch around the loop counts it and the run returns
ListRejects(r) ==
    /\ pc[r] = "list"
    /\ stats' = [stats EXCEPT ![r] = ListingFailed(@)]
    /\ hist' = [hist EXCEPT ![r].listFailed = TRUE, ![r].opFailed = TRUE]
    /\ pc' = [pc EXCEPT ![r] = "returned"]
    /\ stable' = FALSE
    /\ UNCHANGED << aiResponse, metadata, store, request, options, truncated, cursor, listing,
                    processingPromises, task, response, written >>

\* one step of a task: task[r][k] becomes `new`
TaskStep(r, k, new, ok) ==
    /\ task' = [task EXCEPT ![r][k] = new]
    /\ stats' = [stats EXCEPT ![r] = Account(@, task[r][k], new)]
    /\ hist' = [hist EXCEPT ![r].opFailed = @ \/ ~ok]
    /\ UNCHANGED << aiResponse, metadata, pc, request, options, truncated, cursor, listing,
                    processingPromises, response, stable >>

\* head(metadataFilename) settles
HeadSettles(r, k) ==
    /\ pc[r] = "wave"
    /\ task[r][k].pc = "head"
    /\ \E ok \in BOOLEAN :
          TaskStep(r, k, GateSettles(task[r][k], FileExtension(k),
                                     HeadObject(store, MetadataFilename(k)), ~ok), ok)
    /\ UNCHANGED << store, written >>

\* get(objectName) settles
GetSettles(r, k) ==
    /\ pc[r] = "wave"
    /\ task[r][k].pc = "get"
    /\ \E ok \in BOOLEAN :
          LET object == IF ok THEN GetObject(store, k) ELSE "fail"
          IN  TaskStep(r, k,
                       IF IsPdfExtension(FileExtension(k))
                       THEN ProcessPdfGot(task[r][k], object)
                       ELSE ProcessImageGot(task[r][k], object),
                       ok)
    /\ UNCHANGED << store, written >>

\* an analysis call settles
AiSettles(r, k) ==
    /\ pc[r] = "wave"
    /\ task[r][k].pc \in {"vision", "fallback", "analyze"}
    /\ \E ok \in BOOLEAN : TaskStep(r, k, AiSettled(task[r][k], ok), ok)
    /\ UNCHANGED << store, written >>

\* put(metadataFilename, ...) settles
PutSettles(r, k) ==
    /\ pc[r] = "wave"
    /\ task[r][k].pc \in {"putVision", "putFallback", "putMinimal", "putImage"}
    /\ \E ok \in BOOLEAN :
          /\ TaskStep(r, k, PutSettled(task[r][k], ok), ok)
          /\ store' = IF ok THEN PutObject(store, MetadataFilename(k)) ELSE store
          /\ written' = IF ok THEN written \cup {MetadataFilename(k)} ELSE written

\* faulty variant: the cursor of the page is dropped, the next request starts over
NextCursorStuck(page) == 0

\* cursor = listing.truncated ? listing.cursor : undefined
NextCursor(page) == IF page.truncated THEN page.cursor ELSE 0

\* Promise.allSettled resolves: the loop goes round or the run returns
WaveJoin(r) ==
    /\ pc[r] = "wave"
    /\ WaveSettled(r)
    /\ LET more == LoopContinues(r)
       IN  /\ truncated' = [truncated EXCEPT ![r] = more]
           /\ cursor' = [cursor EXCEPT ![r] = NextCursor(listing[r])]
           /\ pc' = [pc EXCEPT ![r] = IF more THEN "list" ELSE "returned"]
           /\ hist' = [hist EXCEPT ![r].lists = IF more THEN @ + 1 ELSE @]
           /\ stable' = IF more THEN stable ELSE CleanRun(r, hist[r])
    /\ UNCHANGED << aiResponse, metadata, store, request, options, stats, listing, processingPromises,
                    task, response, written >>

\* ------------------------------------------------------------ entry points

Requests ==
    [ method    : {"GET", "POST"},
      userAgent : {"Mozilla", "Cloudflare-Workers", "Cronjob"},
      pathname  : {"/", "/test-r2"},
      query     : {"", "force"},                        \* url.searchParams
      form      : {"unparsable", "", "force-reprocess"} ]  \* request.formData()

\* faulty variant: every request is taken for a cron trigger
IsCronTriggerAlways(userAgent) == TRUE

\* userAgent.includes('Cloudflare-Workers') || ... || userAgent.includes('Cronjob')
IsCronTrigger(userAgent) ==
    userAgent \in {"Cloudflare-Workers", "Cloudflare-Scheduler", "Cronjob"}

\* the branch of fetch a request takes, in the order the code tests them
Route(req) ==
    IF IsCronTrigger(req.userAgent) THEN "cron"
    ELSE IF req.pathname = "/test-r2" THEN "test"
    ELSE IF req.method = "POST" THEN "manual"
    ELSE "ui"

\* the status of the Response built after processAllMedia: the try branch
\* answers 200, the catch branch 500
ResponseStatus(threw) == IF threw THEN 500 ELSE 200

\* a new handler takes the lowest slot that is free
Free(r) == pc[r] = "idle" /\ \A q \in Runs : q < r => pc[q] # "idle"

\* no handler is alive
Quiet == \A q \in Runs : pc[q] = "idle"

\* scheduled(controller, env, ctx)
Scheduled(r) ==
    /\ Free(r)
    /\ BeginRun(r, [entry |-> "scheduled", method |-> "none", userAgent |-> "none"], FALSE)

\* fetch, cron branch: forceReprocess = url.searchParams.has('force')
FetchCron(r) ==
    /\ Free(r)
    /\ \E req \in Requests :
          /\ Route(req) = "cron"
          /\ BeginRun(r, [entry |-> "cron", method |-> req.method, userAgent |-> req.userAgent],
                      req.query = "force")

\* fetch, POST branch: forceReprocess = formData.has('force-reprocess'),
\* false when the form cannot be parsed
FetchPost(r) ==
    /\ Free(r)
    /\ \E req \in Requests :
          /\ Route(req) = "manual"
          /\ BeginRun(r, [entry |-> "manual", method |-> req.method, userAgent |-> req.userAgent],
                      req.form = "force-reprocess")

\* fetch, the branches that start no run: /test-r2 lists one object and answers
\* 200 or, when that fails, 500; every other request gets the UI page
FetchOther(r) ==
    /\ Free(r)
    /\ \E req \in Requests :
          /\ Route(req) \in {"test", "ui"}
          /\ request' = [request EXCEPT ![r] = [entry |-> Route(req), method |-> req.method,
                                                   userAgent |-> req.userAgent]]
          /\ response' \in { [response EXCEPT ![r] = st] :
                               st \in IF Route(req) = "test" THEN {200, 500} ELSE {200} }
    /\ pc' = [pc EXCEPT ![r] = "responded"]
    /\ UNCHANGED << aiResponse, metadata, store, options, stats, truncated, cursor, listing,
                    processingPromises, task, hist, stable, written >>

\* the slot of a finished handler is cleared
Cleared(r) ==
    /\ pc' = [pc EXCEPT ![r] = "idle"]
    /\ request' = [request EXCEPT ![r] = NoRequest]
    /\ options' = [options EXCEPT ![r] = [forceReprocess |-> FALSE]]
    /\ stats' = [stats EXCEPT ![r] = ZeroStats]
    /\ truncated' = [truncated EXCEPT ![r] = FALSE]
    /\ cursor' = [cursor EXCEPT ![r] = 0]
    /\ listing' = [listing EXCEPT ![r] = NoListing]
    /\ processingPromises' = [processingPromises EXCEPT ![r] = {}]
    /\ task' = [task EXCEPT ![r] = [k \in Keys |-> NoTask]]
    /\ response' = [response EXCEPT ![r] = 0]
    /\ hist' = [hist EXCEPT ![r] = NoHist]
    /\ UNCHANGED << aiResponse, metadata, store, stable, written >>

\* fetch after `await processAllMedia(...)`: processAllMedia returned its stats
Respond(r) ==
    /\ pc[r] = "returned"
    /\ request[r].entry \in {"cron", "manual"}
    /\ response' = [response EXCEPT ![r] = ResponseStatus(FALSE)]
    /\ pc' = [pc EXCEPT ![r] = "responded"]
    /\ UNCHANGED << aiResponse, metadata, store, request, options, stats, truncated, cursor, listing,
                    processingPromises, task, hist, stable, written >>

\* scheduled after `await processAllMedia(...)`: the handler ends
ScheduledDone(r) ==
    /\ pc[r] = "returned"
    /\ request[r].entry = "scheduled"
    /\ Cleared(r)

\* the Response of fetch has been sent: the handler ends
FetchDone(r) ==
    /\ pc[r] = "responded"
    /\ Cleared(r)

\* ------------------------------------------------------------- environment

\* the runtime ends an invocation that is inside processAllMedia (time limit):
\* the handler stops at the await it stands at (the list request at line 56 or
\* the join of the wave at line 113, with its tasks at whatever await they
\* reached); requests in flight have no further effect, what was put stays
CutOff(r) ==
    /\ pc[r] \in {"list", "wave"}
    /\ pc' = [pc EXCEPT ![r] = "idle"]
    /\ request' = [request EXCEPT ![r] = NoRequest]
    /\ options' = [options EXCEPT ![r] = [forceReprocess |-> FALSE]]
    /\ stats' = [stats EXCEPT ![r] = ZeroStats]
    /\ truncated' = [truncated EXCEPT ![r] = FALSE]
    /\ cursor' = [cursor EXCEPT ![r] = 0]
    /\ listing' = [listing EXCEPT ![r] = NoListing]
    /\ processingPromises' = [processingPromises EXCEPT ![r] = {}]
    /\ task' = [task EXCEPT ![r] = [k \in Keys |-> NoTask]]
    /\ response' = [response EXCEPT ![r] = 0]
    /\ hist' = [hist EXCEPT ![r] = [NoHist EXCEPT !.cut = TRUE]]
    /\ stable' = FALSE
    /\ UNCHANGED << aiResponse, metadata, store, written >>

\* another writer deletes a source object of the bucket
ExternalDelete(k) ==
    /\ k \in DeletableKeys \cap store
    /\ store' = store \ {k}
    /\ stable' = FALSE
    /\ hist' = [r \in Runs |->
                 IF pc[r] # "idle" THEN [hist[r] EXCEPT !.changed = TRUE]
                                   ELSE hist[r]]
    /\ UNCHANGED << aiResponse, metadata, pc, request, options, stats, truncated, cursor, listing,
                    processingPromises, task, response, written >>

\* ----------------------------------------------------------- specification

\* the steps of the handlers that are alive, and of the environment
Step ==
    \/ \E r \in Runs : ListResolves(r)
    \/ \E r \in Runs : ListRejects(r)
    \/ \E r \in Runs, k \in Keys : HeadSettles(r, k)
    \/ \E r \in Runs, k \in Keys : GetSettles(r, k)
    \/ \E r \in Runs, k \in Keys : AiSettles(r, k)
    \/ \E r \in Runs, k \in Keys : PutSettles(r, k)
    \/ \E r \in Runs : WaveJoin(r)
    \/ \E r \in Runs : Respond(r)
    \/ \E r \in Runs : ScheduledDone(r)
    \/ \E r \in Runs : FetchDone(r)
    \/ \E k \in Keys : ExternalDelete(k)

\* a trigger fires
Trigger ==
    \/ \E r \in Runs : Scheduled(r)
    \/ \E r \in Runs : FetchCron(r)
    \/ \E r \in Runs : FetchPost(r)
    \/ \E r \in Runs : FetchOther(r)

\* runs that do not overlap: a trigger fires only when no handler is alive
\* the runtime cuts a handler off
Interrupt == \E r \in Runs : CutOff(r)

Next == (Quiet /\ Trigger) \/ Step \/ Interrupt

Spec == Init /\ [][Next]_vars

\* ------------------------------------------------------------- observation

TaskPcs ==
    { "none", "head", "get", "vision", "fallback", "analyze",
      "putVision", "putFallback", "putMinimal", "putImage", "settled" }

TypeOK ==
    /\ store \subseteq Keys
    /\ pc \in [Runs -> {"idle", "list", "wave", "returned", "responded"}]
    /\ \A r \in Runs :
          /\ options[r].forceReprocess \in BOOLEAN
          /\ \A f \in StatFields : stats[r][f] \in Nat
          /\ truncated[r] \in BOOLEAN
          /\ cursor[r] \in 0..Len(KeyOrder)
          /\ processingPromises[r] \subseteq Keys
          /\ response[r] \in {0, 200, 500}
          /\ \A k \in Keys : task[r][k].pc \in TaskPcs
    /\ stable \in BOOLEAN

\* the run of slot r is over: processAllMedia has returned its stats
Returned(r) == pc[r] \in {"returned", "responded"} /\ request[r].entry \notin {"test", "ui"}

\* increments of stats made on behalf of one object
Increments(t) == t.inc.processed + t.inc.skipped + t.inc.errors

\* non-sidecar keys among a set of keys
NonSidecar(keys) == { k \in keys : ~IsMetadataFile(k) }

\* image or PDF objects: those a processor exists for
HasProcessor(k) ==
    /\ ~IsMetadataFile(k)
    /\ IsImageExtension(FileExtension(k)) \/ IsPdfExtension(FileExtension(k))

\* some operation of the object's task failed
TaskFailed(t) == t.probe = "fail" \/ t.got = "fail" \/ t.aiFail \/ t.putFail

Total(s) == s.processed + s.skipped + s.errors

\* ------------------------------------------------------------------ claims

\* C1: once a run has returned, every listed object whose key does not end
\* with '.metadata.json' has caused exactly one increment of the counters
\* processed, skipped, errors, and every listed sidecar key none, whatever
\* the outcome of the probe, the processing and the sidecar write.
C1_ExactlyOneIncrement ==
    \A r \in Runs : Returned(r) =>
        \A k \in hist[r].listed :
            Increments(task[r][k]) = IF IsMetadataFile(k) THEN 0 ELSE 1

\* C2: when a run returns, processed + skipped + errors equals the number of
\* non-sidecar objects returned by the list requests that succeeded, whether
\* the run listed every page or was ended by a failed list request.
C2_TotalEqualsListed ==
    \A r \in Runs : Returned(r) =>
        Total(stats[r]) = Cardinality(NonSidecar(hist[r].listed))

\* the analysis of the object failed on every path tried, or the last put of
\* its sidecar failed
AnalysisOrWriteFailed(t) == t.invoked /\ (t.aiFail \/ (t.putFail /\ ~t.wrote))

\* C3: a PDF object whose analysis or sidecar write failed is counted once as
\* errors and not as processed; and a forceReprocess run over a.jpg, b.pdf,
\* c.mp4, d.txt in which only the analysis of b.pdf fails returns
\* processed = 1, errors = 1, skipped = 2.
C3_FailureCountedAsError ==
    \A r \in Runs : Returned(r) =>
        /\ \A k \in hist[r].listed :
              (IsPdfExtension(FileExtension(k)) /\ AnalysisOrWriteFailed(task[r][k]))
                  => task[r][k].inc.errors = 1 /\ task[r][k].inc.processed = 0
        /\ ( /\ options[r].forceReprocess
             /\ NonSidecar(hist[r].listed) = SourceKeys
             /\ ~hist[r].listFailed
             /\ task[r][BPdf].aiFail /\ task[r][BPdf].wrote
             /\ \A k \in SourceKeys \ {BPdf} : ~TaskFailed(task[r][k]) )
           => stats[r] = [processed |-> 1, skipped |-> 2, errors |-> 1]

\* the object's task passed the gate: it was probed (non-force run) or handed
\* to processFile without a probe (force run)
Gated(r, k) ==
    IF options[r].forceReprocess
    THEN task[r][k].probe = "none" /\ task[r][k].pc # "none"
    ELSE task[r][k].probe # "none"

\* C4: a failed probe, analysis or sidecar write of one object stops nothing
\* else: a run that no list request failed ends only after every page was
\* requested, so every source object of the bucket was listed, and every
\* supported object of every page was gated and its task ran to its end.
C4_FailureIsolation ==
    \A r \in Runs : (Returned(r) /\ ~hist[r].listFailed) =>
        /\ NonSidecar(store) \subseteq hist[r].listed
        /\ truncated[r] = FALSE
        /\ \A k \in hist[r].listed :
              Promised(k) => Gated(r, k) /\ task[r][k].pc = "settled"

C4_Witness ==
    \E r \in Runs :
        /\ Returned(r) /\ ~hist[r].listFailed /\ ~options[r].forceReprocess
        /\ task[r][AJpg].probe = "fail"
        /\ task[r][BPdf].putFail /\ ~task[r][BPdf].wrote
        /\ task[r][CMp4].probe = "null" /\ task[r][CMp4].pc = "settled"
        /\ hist[r].lists >= 2

\* C5 as stated: a non-force run that follows a clean non-force run over the
\* same objects returns processed = 0, errors = 0, skipped = N.
C5_SecondRunAllSkipped ==
    \A r \in Runs :
        (Returned(r) /\ hist[r].afterClean /\ ~options[r].forceReprocess /\ ~hist[r].changed)
            => stats[r] = [processed |-> 0,
                           skipped   |-> Cardinality(NonSidecar(store)),
                           errors    |-> 0]

\* C5 (amended): a non-force run that follows a clean non-force run over the
\* same objects invokes no processor, issues no put and counts nothing as
\* processed; when none of its own list and head requests fails it returns
\* processed = 0, errors = 0, skipped = N, N the number of non-sidecar objects.
C5_Idempotence ==
    \A r \in Runs :
        (hist[r].afterClean /\ ~options[r].forceReprocess /\ ~hist[r].changed) =>
            /\ \A k \in Keys : ~task[r][k].invoked /\ task[r][k].puts = 0
            /\ stats[r].processed = 0
            /\ (Returned(r) /\ ~hist[r].opFailed) =>
                  stats[r] = [processed |-> 0,
                              skipped   |-> Cardinality(NonSidecar(store)),
                              errors    |-> 0]

C5_Witness ==
    \E r \in Runs :
        /\ Returned(r) /\ hist[r].afterClean /\ ~options[r].forceReprocess
        /\ ~hist[r].changed /\ ~hist[r].opFailed
        /\ NonSidecar(hist[r].listed) = SourceKeys
        /\ stats[r].skipped = 4
        /\ task[r][AJpg].probe = "found" /\ task[r][BPdf].probe = "found"
        /\ written = {MetadataFilename(AJpg), MetadataFilename(BPdf)}

\* C6: in a forceReprocess run no head request is issued, and every listed
\* image or PDF object has its processor invoked, sidecar or no sidecar.
C6_ForceNeverProbes ==
    \A r \in Runs : options[r].forceReprocess =>
        /\ hist[r].heads = 0
        /\ \A k \in hist[r].listed :
              /\ task[r][k].probe = "none"
              /\ HasProcessor(k) => task[r][k].invoked

C6_Witness ==
    \E r \in Runs :
        /\ options[r].forceReprocess
        /\ task[r][BPdf].invoked /\ task[r][BPdf].pc = "get"
        /\ MetadataFilename(BPdf) \in store
        /\ task[r][AJpg].invoked /\ MetadataFilename(AJpg) \notin store

\* C7: in a non-force run the processor of a listed image or PDF object is
\* invoked exactly when head of its sidecar key returned null; when the probe
\* found the sidecar the object is counted once, as skipped, and no analysis
\* and no put is made for it.
C7_ProcessIffProbeNull ==
    \A r \in Runs : ~options[r].forceReprocess =>
        \A k \in hist[r].listed : HasProcessor(k) =>
            /\ task[r][k].invoked <=> task[r][k].probe = "null"
            /\ task[r][k].probe = "found" =>
                  /\ task[r][k].inc = [processed |-> 0, skipped |-> 1, errors |-> 0]
                  /\ task[r][k].pc = "settled"
                  /\ task[r][k].got = "none"
                  /\ task[r][k].puts = 0

C7_Witness ==
    \E r \in Runs :
        /\ ~options[r].forceReprocess
        /\ task[r][AJpg].probe = "found" /\ task[r][AJpg].pc = "settled"
        /\ task[r][BPdf].probe = "null" /\ task[r][BPdf].invoked /\ task[r][BPdf].wrote

\* C8: a failed list request ends the run at once: errors grows by exactly
\* one, processed and skipped keep their values, no task is running or
\* started, no further list request is issued, and the run returns its stats.
C8_ListFailureEndsRun ==
    [][ \A r \in Runs :
          /\ (pc[r] = "list" /\ hist'[r].listFailed) =>
                /\ pc'[r] = "returned"
                /\ stats'[r] = [stats[r] EXCEPT !.errors = @ + 1]
                /\ task'[r] = task[r]
                /\ \A k \in Keys : task[r][k].pc \in {"none", "settled"}
                /\ hist'[r].lists = hist[r].lists
          /\ (Returned(r) /\ hist[r].listFailed /\ pc'[r] # "idle") =>
                /\ Returned(r)'
                /\ stats'[r] = stats[r]
                /\ task'[r] = task[r]
                /\ hist'[r].lists = hist[r].lists ]_vars

C8_Witness ==
    \E r \in Runs :
        /\ pc[r] = "returned" /\ hist[r].listFailed
        /\ hist[r].lists = 2
        /\ stats[r] = [processed |-> 2, skipped |-> 0, errors |-> 1]

\* C9: an HTTP-triggered run that ended because a list request failed is
\* answered with status 500.
C9_ListFailureAnswers500 ==
    \A r \in Runs :
        (pc[r] = "responded" /\ request[r].entry \in {"cron", "manual"} /\ hist[r].listFailed)
            => response[r] = 500

\* C10: whenever a list request of a run is outstanding, no per-object task
\* of the run is running: the request for the next page is issued only after
\* every task of the page before it has settled, failed or not.
C10_ListAfterWaveSettled ==
    \A r \in Runs : pc[r] = "list" =>
        \A k \in Keys : task[r][k].pc \in {"none", "settled"}

C10_Witness ==
    \E r \in Runs :
        /\ pc[r] = "list" /\ hist[r].lists = 2
        /\ task[r][AJpg].pc = "settled" /\ task[r][AJpg].aiFail
        /\ task[r][BPdf].pc = "settled" /\ task[r][BPdf].wrote

\* the sidecar keys of the source objects
Sidecars == { MetadataFilename(k) : k \in SourceKeys }

\* C11: a listed key that ends with '.metadata.json', whether it was there
\* before the run or written during it, gets no task: no head, no get, no
\* analysis, no put and no increment of a counter; and the worker never puts
\* the sidecar of a sidecar.
C11_SidecarsIgnored ==
    /\ \A r \in Runs : \A k \in hist[r].listed \cap Sidecars : task[r][k] = NoTask
    /\ \A r \in Runs : processingPromises[r] \cap Sidecars = {}
    /\ \A w \in written : \A k \in Sidecars : w # MetadataFilename(k)

C11_Witness ==
    \E r \in Runs :
        /\ Returned(r) /\ ~options[r].forceReprocess
        /\ MetadataFilename(BPdf) \in hist[r].listed
        /\ task[r][BPdf].wrote
        /\ MetadataFilename(CMp4) \in hist[r].listed
        /\ MetadataFilename(CMp4) \notin written

\* a listed key that is a video or of unsupported type (not a sidecar)
VideoOrUnsupported(k) ==
    /\ k \notin Sidecars
    /\ \/ FileExtension(k) \notin supportedExtensions
       \/ IsVideoExtension(FileExtension(k))

\* C12: in every run that has returned, a listed video or unsupported object
\* has been counted as skipped exactly once, never as errors or processed,
\* and no analyzer call and no sidecar put was made for it.
C12_VideoAndUnsupportedSkipped ==
    \A r \in Runs :
        Returned(r) =>
            \A k \in hist[r].listed :
                VideoOrUnsupported(k) =>
                    /\ task[r][k].inc = [ZeroStats EXCEPT !.skipped = 1]
                    /\ ~task[r][k].invoked
                    /\ task[r][k].puts = 0

\* C13: in a run without forceReprocess, an object whose head probe failed
\* is counted once, as an error, and is left alone for the rest of the run
\* (no get, no analysis, no put); the run goes on: unless a list request
\* fails it still requests every page and settles every other task.
C13_HeadFailureIsOneError ==
    \A r \in Runs : \A k \in Keys :
        task[r][k].probe = "fail" =>
            /\ ~options[r].forceReprocess
            /\ task[r][k].inc = [ZeroStats EXCEPT !.errors = 1]
            /\ stats[r].errors >= 1
            /\ ~task[r][k].invoked /\ task[r][k].got = "none"
            /\ task[r][k].puts = 0 /\ ~task[r][k].wrote
            /\ task[r][k].pc = "settled"
            /\ (Returned(r) /\ ~hist[r].listFailed) =>
                  /\ truncated[r] = FALSE
                  /\ \A j \in hist[r].listed : Promised(j) => task[r][j].pc = "settled"

C13_Witness ==
    \E r \in Runs :
        /\ Returned(r) /\ ~options[r].forceReprocess /\ ~hist[r].listFailed
        /\ task[r][AJpg].probe = "fail"
        /\ task[r][BPdf].probe = "null" /\ task[r][BPdf].wrote
        /\ DTxt \in hist[r].listed
        /\ stats[r].errors = 1

\* task positions at which a put of the sidecar is in flight
PutPcs == {"putVision", "putFallback", "putMinimal", "putImage"}

\* C14: in a sequence of non-overlapping runs, a run without forceReprocess
\* has a put in flight only for a sidecar key that holds no object, and each
\* of its successful puts creates the sidecar; as no run deletes a sidecar,
\* the runs without forceReprocess write each sidecar at most once.
C14_NonForceWritesOnce ==
    [][ \A r \in Runs : \A k \in Keys :
          ~options[r].forceReprocess =>
             /\ task[r][k].pc \in PutPcs => MetadataFilename(k) \notin store
             /\ (task'[r][k].wrote /\ ~task[r][k].wrote) =>
                    /\ MetadataFilename(k) \notin store
                    /\ MetadataFilename(k) \notin written
                    /\ MetadataFilename(k) \in store'
             /\ store \subseteq store' \cup DeletableKeys ]_vars

C14_Witness ==
    \E r \in Runs :
        /\ Returned(r) /\ ~options[r].forceReprocess
        /\ task[r][AJpg].probe = "found"
        /\ MetadataFilename(AJpg) \in written
        /\ task[r][BPdf].probe = "null" /\ task[r][BPdf].wrote

\* source objects that have an analyzer: images and PDFs
ImageOrPdf(k) ==
    /\ k \notin Sidecars
    /\ IsImageExtension(FileExtension(k)) \/ IsPdfExtension(FileExtension(k))

\* C15: after a handler was cut off inside processAllMedia, at the list
\* request or anywhere in a wave of tasks, a later run without forceReprocess
\* that runs to its end with no failing operation (and no object deleted
\* meanwhile) leaves every image and PDF of the bucket with a sidecar, and it
\* has handed to a processor only objects whose probe found no sidecar.
C15_RestartSafety ==
    \A r \in Runs :
        (Returned(r) /\ hist[r].afterCut /\ CleanRun(r, hist[r])) =>
            /\ \A k \in store : ImageOrPdf(k) => MetadataFilename(k) \in store
            /\ \A k \in Keys : task[r][k].invoked => task[r][k].probe = "null"
            /\ \A k \in Keys : task[r][k].wrote <=> task[r][k].invoked

C15_Witness ==
    \E r \in Runs :
        /\ Returned(r) /\ hist[r].afterCut /\ CleanRun(r, hist[r])
        /\ MetadataFilename(AJpg) \in written
        /\ task[r][AJpg].probe = "found"
        /\ task[r][BPdf].probe = "null" /\ task[r][BPdf].wrote

\* ------------------------------------------------- classification of keys
\* The classification of a key is not a function of its own in the code: it is
\* the extension test of the loop body (index.ts:74-81) and the branches of
\* processFile (index.ts:136-148).  ClassifySpec runs the loop body on a bucket
\* that holds one object whose key is any sequence of up to MaxKeyLen tokens.

\* Longest key, in tokens, of the classification runs.
MaxKeyLen == 4

KeyTokens == {"a", ".", "jpg", "JPG", "jpeg", "png", "pdf", "PDF", "Pdf", "mp4", "MP4", "txt"}

ClassifyKeys == UNION { [1..n -> KeyTokens] : n \in 1..MaxKeyLen }

\* the one object of the bucket of a classification run
TheObject == CHOOSE k \in store : TRUE

ClassifyInit ==
    /\ store \in { {k} : k \in ClassifyKeys }
    /\ pc = [r \in Runs |-> IF r = 1 THEN "list" ELSE "idle"]
    /\ request = [r \in Runs |-> NoRequest]
    /\ options \in { [r \in Runs |-> [forceReprocess |-> f]] : f \in BOOLEAN }
    /\ stats = [r \in Runs |-> ZeroStats]
    /\ truncated = [r \in Runs |-> r = 1]
    /\ cursor = [r \in Runs |-> 0]
    /\ listing = [r \in Runs |-> NoListing]
    /\ processingPromises = [r \in Runs |-> {}]
    /\ task = [r \in Runs |-> [k \in store |-> NoTask]]
    /\ response = [r \in Runs |-> 0]
    /\ hist = [r \in Runs |-> NoHist]
    /\ stable = FALSE
    /\ written = {}
    /\ aiResponse = NoResponse
    /\ metadata = NoMetadata

\* the list request returns the object and the loop body runs on it
ClassifyListed ==
    /\ pc[1] = "list"
    /\ LET new == Launch(TheObject, options[1])
       IN  /\ task' = [task EXCEPT ![1][TheObject] = new]
           /\ stats' = [stats EXCEPT ![1] = Account(@, NoTask, new)]
           /\ processingPromises' =
                  [processingPromises EXCEPT ![1] = { k \in store : Promised(k) }]
           /\ hist' = [hist EXCEPT ![1].listed = store,
                                   ![1].lists = 1,
                                   ![1].heads = IF new.pc = "head" THEN 1 ELSE 0]
    /\ listing' = [listing EXCEPT ![1] = [NoListing EXCEPT !.objects = <<TheObject>>]]
    /\ pc' = [pc EXCEPT ![1] = "wave"]
    /\ UNCHANGED << aiResponse, metadata, store, request, options, truncated, cursor, response, stable, written >>

\* the probe of a run without forceReprocess answers: the object has no sidecar
ClassifyGated ==
    /\ pc[1] = "wave"
    /\ task[1][TheObject].pc = "head"
    /\ TaskStep(1, TheObject,
                GateSettles(task[1][TheObject], FileExtension(TheObject),
                            HeadObject(store, MetadataFilename(TheObject)), FALSE),
                TRUE)
    /\ UNCHANGED << store, written >>

\* get(objectName) answers with the object: the processor chosen by processFile
\* goes on to its analysis
ClassifyGot ==
    /\ pc[1] = "wave"
    /\ task[1][TheObject].pc = "get"
    /\ TaskStep(1, TheObject,
                IF IsPdfExtension(FileExtension(TheObject))
                THEN ProcessPdfGot(task[1][TheObject], GetObject(store, TheObject))
                ELSE ProcessImageGot(task[1][TheObject], GetObject(store, TheObject)),
                TRUE)
    /\ UNCHANGED << store, written >>

ClassifyNext == ClassifyListed \/ ClassifyGated \/ ClassifyGot

ClassifySpec == ClassifyInit /\ [][ClassifyNext]_vars

\* the kind of a key as the classification contract states it: decided by the
\* part of the key after its last '.', whatever its case
ClaimedKind(k) ==
    LET dots == { i \in 1..Len(k) : k[i] = "." }
    IN  IF dots = {}
        THEN "Unsupported"
        ELSE LET last == CHOOSE i \in dots : \A j \in dots : j <= i
                 ext  == SubSeq(k, last + 1, Len(k))
             IN  CASE ext \in { <<"jpg">>, <<"JPG">>, <<"jpeg">>, <<"png">> } -> "Image"
                   [] ext \in { <<"pdf">>, <<"PDF">>, <<"Pdf">> } -> "Pdf"
                   [] ext \in { <<"mp4">>, <<"MP4">> } -> "Video"
                   [] OTHER -> "Unsupported"

\* the treatment the loop body and processFile gave the object, once its task
\* has passed the probe and the get
TreatedAs(t) ==
    CASE t.pc = "analyze" /\ t.invoked -> "Image"
      [] t.pc = "vision" /\ t.invoked  -> "Pdf"
      [] t.pc = "settled" /\ ~t.invoked /\ t.inc = [ZeroStats EXCEPT !.skipped = 1] -> "Video"
      [] t.pc = "none" /\ ~t.invoked /\ t.inc = [ZeroStats EXCEPT !.skipped = 1] -> "Unsupported"
      [] OTHER -> "other"

\* C16: every key gets exactly the treatment of its kind, and the kind depends
\* on the key alone (not on forceReprocess): the part from the last '.' decides,
\* compared without regard to case; jpg, jpeg and png go to the image
\* processor, pdf to the PDF processor, mp4 is skipped inside processFile, and
\* every other key, one without a '.' included, is skipped in the loop body,
\* gets no promise and is never processed.
C16_ClassificationByLastExtension ==
    (pc[1] = "wave" /\ task[1][TheObject].pc \notin {"head", "get"}) =>
        /\ TreatedAs(task[1][TheObject]) = ClaimedKind(TheObject)
        /\ ClaimedKind(TheObject) = "Unsupported" =>
              /\ processingPromises[1] = {}
              /\ stats[1] = [ZeroStats EXCEPT !.skipped = 1]

C16_Witness ==
    /\ TheObject = <<".", "pdf", ".", "JPG">>
    /\ ~options[1].forceReprocess
    /\ pc[1] = "wave"
    /\ task[1][TheObject].pc = "analyze"

\* C17: a step of a run changes the bucket only by a put, and the key of every
\* put is '<key>.metadata.json' for an image or PDF <key> that the run has
\* listed and that is not itself a sidecar; a step that removes a key is not
\* a step of a run (no task and no handler moves in it), so source objects
\* are neither written nor deleted by a run.
C17_OnlySidecarsWritten ==
    [][ /\ \A w \in written' \ written :
              \E r \in Runs : \E k \in hist[r].listed :
                  /\ w = k \o <<".", "metadata", ".", "json">>
                  /\ ~EndsWith(k, <<".", "metadata", ".", "json">>)
                  /\ ImageOrPdf(k)
                  /\ task[r][k].pc \in PutPcs
        /\ store' \ store \subseteq written' \ written
        /\ store' \cap SourceKeys \subseteq store
        /\ store \ store' # {} => UNCHANGED << task, pc, written >>
        /\ \A r \in Runs : \A k \in Keys :
              task'[r][k].puts > task[r][k].puts => k \in hist[r].listed /\ ImageOrPdf(k)
      ]_vars

C17_Witness ==
    \E r \in Runs :
        /\ Returned(r) /\ options[r].forceReprocess
        /\ written = { MetadataFilename(AJpg), MetadataFilename(BPdf) }
        /\ store = Keys \ { MetadataFilename(CMp4) }

\* ------------------------------------------------------ tags of a PDF record
\* A string is a sequence of pieces (single characters for the model reply,
\* words and separators for keys); the string operations of pdf.ts are
\* computed on these sequences.

MinOf(S) == CHOOSE i \in S : \A j \in S : i <= j

MaxOf(S) == CHOOSE i \in S : \A j \in S : j <= i

\* replace(/^c+/, ''): the leading run of the piece c is removed
StripLeading(s, c) ==
    LET keep == { i \in 1..Len(s) : s[i] # c }
    IN  IF keep = {} THEN << >> ELSE SubSeq(s, MinOf(keep), Len(s))

\* replace(/c+$/, ''): the trailing run of the piece c is removed
StripTrailing(s, c) ==
    LET keep == { i \in 1..Len(s) : s[i] # c }
    IN  IF keep = {} THEN << >> ELSE SubSeq(s, 1, MaxOf(keep))

\* String.prototype.trim
Trim(s) == StripTrailing(StripLeading(s, " "), " ")

\* replace(/^c/, '') and replace(/c$/, ''): one piece at most
StripFirst(s, c) == IF Len(s) > 0 /\ s[1] = c THEN Tail(s) ELSE s

StripLast(s, c) == IF Len(s) > 0 /\ s[Len(s)] = c THEN SubSeq(s, 1, Len(s) - 1) ELSE s

\* replace(/^cc/, '') and replace(/cc$/, ''): exactly two pieces
StripFirstTwo(s, c) ==
    IF Len(s) >= 2 /\ s[1] = c /\ s[2] = c THEN SubSeq(s, 3, Len(s)) ELSE s

StripLastTwo(s, c) ==
    IF Len(s) >= 2 /\ s[Len(s)] = c /\ s[Len(s) - 1] = c
    THEN SubSeq(s, 1, Len(s) - 2) ELSE s

\* String.prototype.toLowerCase on a string
LowerCased(s) == [i \in 1..Len(s) |-> ToLowerCase(s[i])]

\* [...new Set(seq)]: the first occurrence of each element, in order
RECURSIVE NewSet(_)
NewSet(seq) ==
    IF seq = << >>
    THEN << >>
    ELSE LET init == NewSet(SubSeq(seq, 1, Len(seq) - 1))
             last == seq[Len(seq)]
         IN  IF \E i \in 1..Len(init) : init[i] = last THEN init ELSE Append(init, last)

PdfTag == <<"pdf">>

ProcessingErrorTag == <<"processing-error">>

\* extractTags, the callback of rawTags.map: trim, toLowerCase, then the
\* asterisks, double quotes, one single quote and one bracket at either end
CleanTag(tag) ==
    LET lowered  == LowerCased(Trim(tag))
        unstarred == StripTrailing(StripLeading(lowered, "*"), "*")
        unquoted == StripTrailing(StripLeading(unstarred, "\""), "\"")
        unticked == StripLast(StripFirst(unquoted, "'"), "'")
    IN  StripLast(StripFirst(unticked, "["), "]")

\* extractTags(text): text is the reply; match says whether /TAGS:(.+?)/ matched
\* and section is the matched part split at ',' and ';'
ExtractTags(text) ==
    IF ~text.match
    THEN << PdfTag >>
    ELSE LET rawTags       == [i \in 1..Len(text.section) |-> CleanTag(text.section[i])]
             extractedTags == SelectSeq(rawTags, LAMBDA tag : Len(tag) > 0)
         IN  IF Len(extractedTags) > 0
             THEN NewSet(<< PdfTag >> \o extractedTags)
             ELSE << PdfTag >>

\* validateAndCleanOutput, the tags: '**' and '""' markers at either end are
\* removed, the tag is trimmed, duplicates are dropped
ValidateAndCleanOutput(tags) ==
    NewSet([i \in 1..Len(tags) |->
              Trim(StripLastTwo(StripFirstTwo(
                     StripLastTwo(StripFirstTwo(tags[i], "*"), "*"), "\""), "\""))])

\* the pieces at which the minimal metadata splits the key: /[_\-\s.]+/
Separators == {"_", "-", " ", "."}

\* objectName.replace(/\.pdf$/i, '').split(/[_\-\s.]+/).filter(word => word.length > 2)
FilenameWords(objectName) ==
    LET n    == Len(objectName)
        stem == IF n >= 2 /\ objectName[n - 1] = "." /\ ToLowerCase(objectName[n]) = "pdf"
                THEN SubSeq(objectName, 1, n - 2)
                ELSE objectName
    IN  SelectSeq(stem, LAMBDA word : word \notin Separators /\ Len(word) > 2)

\* tags: ["pdf", "processing-error", ...filenameWords.slice(0, 3)]
MinimalTags(objectName) ==
    LET filenameWords == FilenameWords(objectName)
        first == SubSeq(filenameWords, 1, IF Len(filenameWords) < 3 THEN Len(filenameWords) ELSE 3)
    IN  << PdfTag, ProcessingErrorTag >> \o [i \in 1..Len(first) |-> << first[i] >>]

\* TagsSpec runs processPdf on a bucket that holds one PDF, for every reply of
\* the summary model out of Responses, and lets it take any of its three
\* paths to the put of the metadata record.

\* Most tags in the TAGS section of a reply.
MaxTags == 2

\* characters of a raw tag: an upper-case and a lower-case letter, and the
\* markers and blanks that extractTags and validateAndCleanOutput strip
TagChars == {"A", "a", "*", "\"", " "}

RawTags ==
    UNION { [1..n -> TagChars] : n \in 0..2 }
        \cup { <<"*", "A", "*">>, <<"\"", "a", "\"">>, <<" ", "A", " ">>, <<"\"", "*", "a">> }

Responses ==
    { NoResponse } \cup
    { [match |-> TRUE, section |-> sec] : sec \in UNION { [1..n -> RawTags] : n \in 1..MaxTags } }

\* keys of the PDF the runs of the tag computation process
TagKeys ==
    { BPdf,
      <<"Report", ".", "pdf">>,
      <<"pdf", "_", "report", ".", "PDF">>,
      <<"scan", "-", "scan", "_", "q2", " ", "final", ".", "draft", ".", "pdf">> }

\* the PDF of the bucket of a run of the tag computation
ThePdf == CHOOSE k \in store : k \in TagKeys

TagsInit ==
    /\ store \in { {k} : k \in TagKeys }
    /\ aiResponse \in Responses
    /\ metadata = NoMetadata
    /\ pc = [r \in Runs |-> "idle"]
    /\ request = [r \in Runs |-> NoRequest]
    /\ options = [r \in Runs |-> [forceReprocess |-> FALSE]]
    /\ stats = [r \in Runs |-> ZeroStats]
    /\ truncated = [r \in Runs |-> FALSE]
    /\ cursor = [r \in Runs |-> 0]
    /\ listing = [r \in Runs |-> NoListing]
    /\ processingPromises = [r \in Runs |-> {}]
    /\ task = [r \in Runs |-> [k \in store |-> NoTask]]
    /\ response = [r \in Runs |-> 0]
    /\ hist = [r \in Runs |-> NoHist]
    /\ stable = FALSE
    /\ written = {}

\* processPdf puts the record with the given tags
PutMetadata(path, tags) ==
    /\ metadata = NoMetadata
    /\ metadata' = [path |-> path, tags |-> tags]
    /\ store' = PutObject(store, MetadataFilename(ThePdf))
    /\ written' = written \cup { MetadataFilename(ThePdf) }
    /\ UNCHANGED << aiResponse, pc, request, options, stats, truncated, cursor, listing,
                    processingPromises, task, response, hist, stable >>

\* the vision path: extractTags on the summary reply, validateAndCleanOutput, put
PutVisionMetadata == PutMetadata("vision", ValidateAndCleanOutput(ExtractTags(aiResponse)))

\* the text-based fallback: extractTags on the reply of generateTextBasedMetadata, put
PutFallbackMetadata == PutMetadata("fallback", ExtractTags(aiResponse))

\* both failed: the minimal metadata is put
PutMinimalMetadata == PutMetadata("minimal", MinimalTags(ThePdf))

TagsNext == PutVisionMetadata \/ PutFallbackMetadata \/ PutMinimalMetadata

TagsSpec == TagsInit /\ [][TagsNext]_vars

\* no element of the sequence occurs twice
NoDuplicates(seq) == \A i, j \in 1..Len(seq) : seq[i] = seq[j] => i = j

\* the string has no upper-case piece
IsLowerCase(s) == \A i \in 1..Len(s) : ToLowerCase(s[i]) = s[i]

\* the tags of a record are deduplicated and lower-cased
TagsClean(tags) == NoDuplicates(tags) /\ \A i \in 1..Len(tags) : IsLowerCase(tags[i])

\* C18: the record processPdf puts, on the vision path, on the text-based
\* fallback path and on the minimal-metadata path, has tags without a
\* duplicate and without an upper-case letter.
C18_TagsDedupedLowerCased ==
    metadata.path # "none" => TagsClean(metadata.tags)

\* the same for the two paths that take the tags from extractTags
TagsCleanOnAnalysisPaths ==
    metadata.path \in {"vision", "fallback"} => TagsClean(metadata.tags)

\* ------------------------------------------------------------- termination
\* LiveSpec: runs that the runtime does not cut off, in which every request
\* to the store and every analysis call settles and every continuation that
\* is ready to run is run (the event loop of the worker).

\* a continuation of the handler of slot r runs
Progress(r) ==
    \/ ListResolves(r)
    \/ ListRejects(r)
    \/ \E k \in Keys : HeadSettles(r, k)
    \/ \E k \in Keys : GetSettles(r, k)
    \/ \E k \in Keys : AiSettles(r, k)
    \/ \E k \in Keys : PutSettles(r, k)
    \/ WaveJoin(r)

LiveNext == (Quiet /\ Trigger) \/ Step

\* the bucket before the first run: the source objects, no sidecar yet
LiveInit == Init /\ store = SourceKeys

LiveSpec == LiveInit /\ [][LiveNext]_vars /\ \A r \in Runs : WF_vars(Progress(r))

\* C19: every run returns; its first list request carries no cursor; a list
\* request is issued only when the run begins or when the page before it was
\* received, was reported truncated and its wave has been joined, and it
\* carries the cursor that page returned (so one request per page); and after
\* a page that is not truncated no list request follows.
C19_PagingTerminates ==
    /\ \A r \in Runs : (pc[r] \in {"list", "wave"}) ~> (pc[r] = "returned")
    /\ [][ \A r \in Runs :
             /\ hist'[r].lists \in { hist[r].lists, hist[r].lists + 1, 0 }
             /\ hist'[r].lists = hist[r].lists + 1 =>
                   /\ pc'[r] = "list"
                   /\ \/ pc[r] = "idle" /\ hist[r].lists = 0 /\ cursor'[r] = 0
                      \/ /\ pc[r] = "wave"
                         /\ listing[r].truncated
                         /\ cursor'[r] = listing[r].cursor
                         /\ cursor'[r] > cursor[r]
             /\ (pc[r] = "wave" /\ ~listing[r].truncated) => pc'[r] \in {"wave", "returned"}
             /\ (pc[r] # "list" /\ pc'[r] = "list") => hist'[r].lists = hist[r].lists + 1
       ]_vars

C19_Witness ==
    \E r \in Runs :
        /\ Returned(r) /\ ~hist[r].listFailed
        /\ hist[r].lists >= 3
        /\ ~listing[r].truncated
        /\ hist[r].listed = store

\* ------------------------------------------------------ statistics of a run

\* what the outcome of the task of object k adds to the stats of run r, read
\* from what happened to the object and not from the order in which it happened
OutcomeStats(r, k) ==
    LET t == task[r][k]
    IN  IF k \notin hist[r].listed \/ k \in Sidecars
        THEN ZeroStats
        ELSE IF FileExtension(k) \notin supportedExtensions
        THEN [ZeroStats EXCEPT !.skipped = 1]
        ELSE IF t.pc # "settled"
        THEN ZeroStats
        ELSE IF t.probe = "fail"
        THEN [ZeroStats EXCEPT !.errors = 1]
        ELSE IF t.probe = "found" \/ ~t.invoked
        THEN [ZeroStats EXCEPT !.skipped = 1]
        ELSE IF IsImageExtension(FileExtension(k)) /\ ~t.wrote
        THEN [ZeroStats EXCEPT !.errors = 2]
        ELSE [ZeroStats EXCEPT !.processed = 1]

\* the sum of the outcomes of the objects in S
RECURSIVE SumOutcomes(_, _)
SumOutcomes(r, S) ==
    IF S = {}
    THEN ZeroStats
    ELSE LET k    == CHOOSE x \in S : TRUE
             rest == SumOutcomes(r, S \ {k})
         IN  [f \in StatFields |-> OutcomeStats(r, k)[f] + rest[f]]

\* C20: at every moment of a run its stats are the sum of what the outcomes
\* of its objects add (plus one error for a failed list request), whatever
\* the order in which the tasks of a page reached their suspension points, so
\* no increment is lost and the stats returned depend on the outcomes only;
\* the counters are 0 when the run begins and never decrease during it.
C20_StatsOrderIndependent ==
    /\ [](\A r \in Runs :
             pc[r] # "idle" =>
                stats[r] = [SumOutcomes(r, Keys) EXCEPT
                              !.errors = @ + IF hist[r].listFailed THEN 1 ELSE 0])
    /\ [][ \A r \in Runs :
             /\ (pc[r] = "idle" /\ pc'[r] # "idle") => stats'[r] = ZeroStats
             /\ (pc[r] # "idle" /\ pc'[r] # "idle") =>
                   \A f \in StatFields : stats'[r][f] >= stats[r][f]
       ]_vars

C20_Witness ==
    \E r \in Runs :
        /\ pc[r] = "wave"
        /\ processingPromises[r] = {AJpg, BPdf}
        /\ task[r][BPdf].pc = "settled" /\ task[r][BPdf].inc.processed = 1
        /\ task[r][AJpg].pc = "putImage"
        /\ stats[r] = [ZeroStats EXCEPT !.processed = 1]

\* ------------------------------------------------------- HTTP entry point

\* the handler of slot r is a fetch handler
IsFetch(r) == request[r].entry \in {"cron", "manual", "test", "ui"}

\* the handler of slot r has called processAllMedia
RunStarted(r) == hist[r].lists > 0

\* the handler of slot r has caused no list request, no processor call and no put
NoRunEffects(r) ==
    /\ ~RunStarted(r)
    /\ \A k \in Keys : ~task[r][k].invoked /\ task[r][k].puts = 0 /\ ~task[r][k].wrote

C22_ProcessedMeansWritten ==
    \A r \in Runs :
        /\ \A k \in Keys : task[r][k].inc.processed > 0 => task[r][k].wrote
        /\ Returned(r) =>
              stats[r].processed = Cardinality({ k \in Keys : task[r][k].wrote })

\* ---------------------------------------------------------- overlapping runs
\* OverlapSpec: a handler may start while another is alive (the runtime does
\* not serialise invocations); the bucket holds one PDF without a sidecar.

OverlapInit ==
    /\ store = {BPdf}
    /\ pc = [r \in Runs |-> "idle"]
    /\ request = [r \in Runs |-> NoRequest]
    /\ options = [r \in Runs |-> [forceReprocess |-> FALSE]]
    /\ stats = [r \in Runs |-> ZeroStats]
    /\ truncated = [r \in Runs |-> FALSE]
    /\ cursor = [r \in Runs |-> 0]
    /\ listing = [r \in Runs |-> NoListing]
    /\ processingPromises = [r \in Runs |-> {}]
    /\ task = [r \in Runs |-> [k \in Keys |-> NoTask]]
    /\ response = [r \in Runs |-> 0]
    /\ hist = [r \in Runs |-> NoHist]
    /\ stable = FALSE
    /\ written = {}
    /\ aiResponse = NoResponse
    /\ metadata = NoMetadata

\* the timer or a POST request starts a handler, whatever the other slots do
OverlapTrigger ==
    \/ \E r \in Runs : Scheduled(r)
    \/ \E r \in Runs : FetchPost(r)

OverlapNext == OverlapTrigger \/ Step

OverlapSpec == OverlapInit /\ [][OverlapNext]_vars

\* two handlers are inside processAllMedia, or have just left it, at once
Overlapping(r, q) == r # q /\ pc[r] # "idle" /\ pc[q] # "idle"

\* C23: of two overlapping runs without forceReprocess at most one hands a
\* given object to a processor and at most one puts its sidecar.
C23_OverlapProcessesOnce ==
    \A r, q \in Runs :
        (Overlapping(r, q) /\ ~options[r].forceReprocess /\ ~options[q].forceReprocess) =>
            \A k \in Keys :
                /\ ~(task[r][k].invoked /\ task[q][k].invoked)
                /\ ~(task[r][k].puts > 0 /\ task[q][k].puts > 0)

====
